---- MODULE Spec2Model ----
(***************************************************************************)
(* Model of the MTA_Alerts data cache (src/datacache.js): the per-line     *)
(* accounting records, the refresh cycles started by the constructor and   *)
(* by setInterval, and the two ways a cycle folds its snapshot into the    *)
(* records (GTFS alert feeds, or the scraped status page).                 *)
(*                                                                         *)
(* Time is in milliseconds, as returned by new Date().getTime(); the       *)
(* process starts at time 0.                                               *)
(***************************************************************************)
EXTENDS Integers, Sequences, FiniteSets, TLC

VARIABLES
  sourceIsGtfsApi,  \* the hard-coded source flag
  clock,            \* the wall clock
  ticks,            \* how many times the clock has advanced (bounds the run)
  startTime,        \* DataCache.startTime
  lineData,         \* DataCache.lineData: line id -> record
  nextFire,         \* when the setInterval timer is next due
  inflight,         \* start times of the cycles whose fetch has not settled
  pc,               \* where the event loop is: "idle", "settled", "returned",
                    \* "answered"
  cur,              \* the cycle whose fetch settled last: what it settled to,
                    \* and the records as its callback found them
  reply             \* the query being answered: its arguments and its result

vars == <<sourceIsGtfsApi, clock, ticks, startTime, lineData, nextFire, inflight, pc, cur, reply>>

----------------------------------------------------------------------------
(* Bounds *)

\* The clock advances at most this many times in a run.
MaxTicks == 2
\* A feed message carries at most this many entities.
MaxEntities == 1
\* An alert names at most this many informed entities.
MaxInformed == 1

----------------------------------------------------------------------------
(* Program constants *)

REFRESH_INTERVAL == 59000

\* The enumeration of tracked lines (one of the 23: the records of different
\* lines never influence one another).
SUBWAY_LINES == <<"G">>

\* The configured feeds, in request order. The two versions of the list
\* each configure one feed; the model configures both so that a cycle fans
\* out over more than one request.
FEED_IDS == <<"camsys%2Fsubway-alerts", "nyct%2fgtfs-ace">>

\* Route ids an upstream source can mention: the enumerated line and one
\* route that is not in SUBWAY_LINES.
RouteIds == {"G", "H"}

\* The amounts by which the model's clock advances between events.
ClockSteps == {500}

Range(s) == {s[i] : i \in 1..Len(s)}

SeqsUpTo(S, n) == UNION {[1..k -> S] : k \in 0..n}

----------------------------------------------------------------------------
(* initLineData *)

\* initLineData that ignores its argument and starts the record at time 0.
initLineDataStale(time) ==
  [activeTime |-> 0, undelayedTime |-> 0, lastUpdated |-> 0,
   status |-> "NOT DELAYED"]

initLineData(time) ==
  [activeTime |-> 0, undelayedTime |-> 0, lastUpdated |-> time,
   status |-> "NOT DELAYED"]

\* lineData[id] = rec on a JS object: adds the key when it is missing.
Put(ld, id, rec) ==
  [x \in (DOMAIN ld) \cup {id} |-> IF x = id THEN rec ELSE ld[x]]

----------------------------------------------------------------------------
(* The alert feed: headers, entities, messages, request outcomes *)

\* Header strings are sequences of characters. "BS" stands for the
\* backspace character U+0008.
HeaderDelays   == <<"D", "e", "l", "a", "y", "s">>
HeaderDelaysBS == <<"D", "E", "l", "a", "y", "s", "BS">>
Headers == {HeaderDelays, HeaderDelaysBS}

\* The 'i' flag: compare characters without regard to case.
LowerCase(ch) ==
  CASE ch = "D" -> "d"
    [] ch = "E" -> "e"
    [] ch = "L" -> "l"
    [] ch = "A" -> "a"
    [] ch = "Y" -> "y"
    [] ch = "S" -> "s"
    [] OTHER -> ch

\* new RegExp('^delays\b', 'i'): inside a JS string literal \b is the
\* backspace character, so the pattern is "delays" followed by U+0008.
delaysRegExp == <<"d", "e", "l", "a", "y", "s", "BS">>

\* alertHeader.search(delaysRegExp) >= 0: the pattern is anchored at the
\* start of the string.
SearchMatches(header, pattern) ==
  /\ Len(header) >= Len(pattern)
  /\ \A i \in 1..Len(pattern) : LowerCase(header[i]) = pattern[i]

\* alertHeader != '' && alertHeader.search(delaysRegExp) >= 0
IsDelaysHeader(header) ==
  header # <<>> /\ SearchMatches(header, delaysRegExp)

\* A feed entity: either it has no alert (or no header text), or it has a
\* header and a list of informed route ids.
Entities ==
  {[hasAlert |-> FALSE, header |-> <<>>, informed |-> <<>>]} \cup
  [hasAlert : {TRUE}, header : Headers, informed : SeqsUpTo(RouteIds, MaxInformed)]

\* What one makeRequest promise settles to:
\*   "rejected"    non-2xx status or connection error,
\*   "undecodable" both decoders threw, the promise resolves with {},
\*   "message"     a decoded FeedMessage with its entities.
FeedOutcomes ==
  {[kind |-> "rejected", entity |-> <<>>],
   [kind |-> "undecodable", entity |-> <<>>]} \cup
  [kind : {"message"}, entity : SeqsUpTo(Entities, MaxEntities)]

FeedResults == [1..Len(FEED_IDS) -> FeedOutcomes]

----------------------------------------------------------------------------
(* refreshData, feed branch *)

\* SeeDelayed without the lastUpdated = currentTime statement.
SeeDelayedKeepsLastUpdated(ld, routeId, currentTime) ==
  LET ld1 == IF routeId \in DOMAIN ld THEN ld
             ELSE Put(ld, routeId, initLineData(currentTime))
      r   == ld1[routeId]
  IN Put(ld1, routeId,
         [r EXCEPT !.activeTime = @ + (currentTime - r.lastUpdated),
                   !.status = "DELAYED"])

\* The body of informed_entity.forEach for one route id.
SeeDelayed(ld, routeId, currentTime) ==
  LET ld1 == IF routeId \in DOMAIN ld THEN ld
             ELSE Put(ld, routeId, initLineData(currentTime))
      r   == ld1[routeId]
  IN Put(ld1, routeId,
         [r EXCEPT !.activeTime = @ + (currentTime - r.lastUpdated),
                   !.lastUpdated = currentTime,
                   !.status = "DELAYED"])

\* informed_entity.forEach over one alert. st = [lineData, linesSeen].
RECURSIVE ForEachInformed(_, _, _, _)
ForEachInformed(st, informed, i, currentTime) ==
  IF i > Len(informed) THEN st
  ELSE ForEachInformed(
         [lineData  |-> SeeDelayed(st.lineData, informed[i], currentTime),
          linesSeen |-> st.linesSeen \cup {informed[i]}],
         informed, i + 1, currentTime)

\* The body of feedMessage.entity.forEach for one entity.
ProcessEntity(st, e, currentTime) ==
  IF e.hasAlert /\ IsDelaysHeader(e.header)
  THEN ForEachInformed(st, e.informed, 1, currentTime)
  ELSE st

RECURSIVE ForEachEntity(_, _, _, _)
ForEachEntity(st, entity, i, currentTime) ==
  IF i > Len(entity) THEN st
  ELSE ForEachEntity(ProcessEntity(st, entity[i], currentTime),
                     entity, i + 1, currentTime)

\* results.forEach. A message that is {} has no entity field, so
\* feedMessage.entity.forEach throws there: the loop stops with the records
\* as the earlier messages left them. st = [lineData, linesSeen, threw].
RECURSIVE ForEachResult(_, _, _, _)
ForEachResult(st, results, i, currentTime) ==
  IF i > Len(results) THEN st
  ELSE IF results[i].kind = "undecodable"
       THEN [st EXCEPT !.threw = TRUE]
       ELSE LET s == ForEachEntity([lineData |-> st.lineData,
                                    linesSeen |-> st.linesSeen],
                                   results[i].entity, 1, currentTime)
            IN ForEachResult([lineData |-> s.lineData,
                              linesSeen |-> s.linesSeen,
                              threw |-> FALSE],
                             results, i + 1, currentTime)

\* UpdateUnseen without the activeTime += deltaTime statement.
UpdateUnseenNoActive(ld, linesSeen, lineId, currentTime) ==
  IF lineId \in linesSeen THEN ld
  ELSE LET r == ld[lineId]
           deltaTime == currentTime - r.lastUpdated
       IN Put(ld, lineId,
              [activeTime    |-> r.activeTime,
               lastUpdated   |-> currentTime,
               undelayedTime |-> IF r.status = "NOT DELAYED"
                                 THEN r.undelayedTime + deltaTime
                                 ELSE r.undelayedTime,
               status        |-> "NOT DELAYED"])

\* UpdateUnseen crediting undelayedTime whatever the status was.
UpdateUnseenCreditsAlways(ld, linesSeen, lineId, currentTime) ==
  IF lineId \in linesSeen THEN ld
  ELSE LET r == ld[lineId]
           deltaTime == currentTime - r.lastUpdated
       IN Put(ld, lineId,
              [activeTime    |-> r.activeTime + deltaTime,
               lastUpdated   |-> currentTime,
               undelayedTime |-> r.undelayedTime + deltaTime,
               status        |-> "NOT DELAYED"])

\* UpdateUnseen with the status test inverted.
UpdateUnseenInverted(ld, linesSeen, lineId, currentTime) ==
  IF lineId \in linesSeen THEN ld
  ELSE LET r == ld[lineId]
           deltaTime == currentTime - r.lastUpdated
       IN Put(ld, lineId,
              [activeTime    |-> r.activeTime + deltaTime,
               lastUpdated   |-> currentTime,
               undelayedTime |-> IF r.status # "NOT DELAYED"
                                 THEN r.undelayedTime + deltaTime
                                 ELSE r.undelayedTime,
               status        |-> "NOT DELAYED"])

\* The body of SUBWAY_LINES.forEach for one line.
UpdateUnseen(ld, linesSeen, lineId, currentTime) ==
  IF lineId \in linesSeen THEN ld
  ELSE LET r == ld[lineId]
           deltaTime == currentTime - r.lastUpdated
       IN Put(ld, lineId,
              [activeTime    |-> r.activeTime + deltaTime,
               lastUpdated   |-> currentTime,
               undelayedTime |-> IF r.status = "NOT DELAYED"
                                 THEN r.undelayedTime + deltaTime
                                 ELSE r.undelayedTime,
               status        |-> "NOT DELAYED"])

RECURSIVE ForEachSubwayLine(_, _, _, _)
ForEachSubwayLine(ld, linesSeen, i, currentTime) ==
  IF i > Len(SUBWAY_LINES) THEN ld
  ELSE ForEachSubwayLine(UpdateUnseen(ld, linesSeen, SUBWAY_LINES[i], currentTime),
                         linesSeen, i + 1, currentTime)

\* The .then callback of Promise.all followed by .catch(() => {}).
FeedThen(ld, results, currentTime) ==
  LET st == ForEachResult([lineData |-> ld, linesSeen |-> {}, threw |-> FALSE],
                          results, 1, currentTime)
  IN IF st.threw THEN st.lineData
     ELSE ForEachSubwayLine(st.lineData, st.linesSeen, 1, currentTime)

\* Promise.all rejects as soon as one request rejects.
AnyRejected(results) == \E i \in DOMAIN results : results[i].kind = "rejected"

----------------------------------------------------------------------------
(* refreshData, scrape branch *)

Judgments == {"delayed", "undelayed"}

\* What scrapePage resolves to: a judgment for some of the lines.
LineStatuses == UNION {[D -> Judgments] : D \in SUBSET RouteIds}

\* ScrapeUpdate crediting undelayedTime by the status held before the
\* update, as the feed branch does, instead of by the judgment.
ScrapeUpdateByPriorStatus(ld, line, judgment, currentTime) ==
  LET ld1 == IF line \in DOMAIN ld THEN ld
             ELSE Put(ld, line, initLineData(currentTime))
      r   == ld1[line]
      deltaTime == currentTime - r.lastUpdated
  IN Put(ld1, line,
         [activeTime    |-> r.activeTime + deltaTime,
          lastUpdated   |-> currentTime,
          undelayedTime |-> IF r.status = "NOT DELAYED"
                            THEN r.undelayedTime + deltaTime
                            ELSE r.undelayedTime,
          status        |-> IF judgment = "delayed" THEN "DELAYED" ELSE "NOT DELAYED"])

\* ScrapeUpdate with the judgment tested against the wrong literal in the
\* first status test.
ScrapeUpdateSwapped(ld, line, judgment, currentTime) ==
  LET ld1 == IF line \in DOMAIN ld THEN ld
             ELSE Put(ld, line, initLineData(currentTime))
      r   == ld1[line]
      deltaTime == currentTime - r.lastUpdated
  IN Put(ld1, line,
         [activeTime    |-> r.activeTime + deltaTime,
          lastUpdated   |-> currentTime,
          undelayedTime |-> IF judgment = "undelayed"
                            THEN r.undelayedTime + deltaTime
                            ELSE r.undelayedTime,
          status        |-> IF r.status = "NOT DELAYED" /\ judgment = "undelayed"
                            THEN "DELAYED" ELSE r.status])

\* The body of Object.keys(lineStatus).forEach for one line.
ScrapeUpdate(ld, line, judgment, currentTime) ==
  LET ld1 == IF line \in DOMAIN ld THEN ld
             ELSE Put(ld, line, initLineData(currentTime))
      r   == ld1[line]
      deltaTime == currentTime - r.lastUpdated
      status1 == IF r.status = "NOT DELAYED" /\ judgment = "delayed"
                 THEN "DELAYED" ELSE r.status
  IN Put(ld1, line,
         [activeTime    |-> r.activeTime + deltaTime,
          lastUpdated   |-> currentTime,
          undelayedTime |-> IF judgment = "undelayed"
                            THEN r.undelayedTime + deltaTime
                            ELSE r.undelayedTime,
          status        |-> IF judgment = "undelayed" /\ status1 = "DELAYED"
                            THEN "NOT DELAYED" ELSE status1])

RECURSIVE ForEachKey(_, _, _, _)
ForEachKey(ld, lineStatus, keys, currentTime) ==
  IF keys = {} THEN ld
  ELSE LET line == CHOOSE k \in keys : TRUE
       IN ForEachKey(ScrapeUpdate(ld, line, lineStatus[line], currentTime),
                     lineStatus, keys \ {line}, currentTime)

\* A scrape callback that, after the pass over the keys, also advances the
\* time accounting of every record the snapshot does not mention.
ScrapeThenAdvancesAll(ld, lineStatus, currentTime) ==
  LET ld1 == ForEachKey(ld, lineStatus, DOMAIN lineStatus, currentTime)
  IN [id \in DOMAIN ld1 |->
        IF id \in DOMAIN lineStatus THEN ld1[id]
        ELSE LET r == ld1[id]
                 deltaTime == currentTime - r.lastUpdated
             IN [r EXCEPT !.activeTime = @ + deltaTime,
                          !.undelayedTime = IF r.status = "NOT DELAYED"
                                            THEN @ + deltaTime ELSE @,
                          !.lastUpdated = currentTime]]

ScrapeThen(ld, lineStatus, currentTime) ==
  ForEachKey(ld, lineStatus, DOMAIN lineStatus, currentTime)

----------------------------------------------------------------------------
(* The query surface *)

\* Line ids a client can ask about: the ids a source can mention, one that
\* never occurs anywhere, and one that names a property every JS object
\* inherits.
QueryLines == RouteIds \cup {"ZZ", "constructor"}

\* lineData is created as {}: besides its own keys, a lookup finds the
\* properties inherited from Object.prototype (functions, hence truthy).
ObjectPrototypeKeys == {"constructor"}

NotFoundText == "We do not have data on that line."
NoBaselineText == "We do not have a baseline for this subway line."

\* The least activeTime for which getUptime reports a ratio.
MinActiveTime == 1000

\* A reply that is a string literal or a status.
Text(str) == [kind |-> "text", text |-> str, thousandths |-> 0]

\* The value undefined.
Undefined == [kind |-> "undefined", text |-> "", thousandths |-> 0]

\* (num / den).toFixed(3): the ratio rounded to a whole number of
\* thousandths, halves rounded up.
ToFixed3(num, den) ==
  [kind |-> "toFixed(3)", text |-> "",
   thousandths |-> (2000 * num + den) \div (2 * den)]

\* getUptime that adds the live delta to undelayedTime whatever the status.
getUptimeAlwaysLive(ld, line, now) ==
  IF line \in DOMAIN ld
  THEN LET deltaTime  == now - ld[line].lastUpdated
           activeTime == ld[line].activeTime + deltaTime
       IN IF activeTime < MinActiveTime THEN Text(NoBaselineText)
          ELSE ToFixed3(ld[line].undelayedTime + deltaTime, activeTime)
  ELSE IF line \in ObjectPrototypeKeys THEN Text("NaN")
  ELSE Text(NotFoundText)

\* DataCache.getUptime. For an inherited property every field read is
\* undefined, the arithmetic yields NaN, NaN < 1000 is false and
\* NaN.toFixed(3) is "NaN".
getUptime(ld, line, now) ==
  IF line \in DOMAIN ld
  THEN LET deltaTime  == now - ld[line].lastUpdated
           activeTime == ld[line].activeTime + deltaTime
       IN IF activeTime < MinActiveTime THEN Text(NoBaselineText)
          ELSE LET undelayedTime ==
                     IF ld[line].status = "NOT DELAYED"
                     THEN ld[line].undelayedTime + deltaTime
                     ELSE ld[line].undelayedTime
               IN ToFixed3(undelayedTime, activeTime)
  ELSE IF line \in ObjectPrototypeKeys THEN Text("NaN")
  ELSE Text(NotFoundText)

\* DataCache.getStatus. For an inherited property the status field is
\* undefined.
getStatus(ld, line) ==
  IF line \in DOMAIN ld THEN Text(ld[line].status)
  ELSE IF line \in ObjectPrototypeKeys THEN Undefined
  ELSE Text(NotFoundText)

\* DataCache.getLines
getLines == SUBWAY_LINES

----------------------------------------------------------------------------
(* The state machine *)

\* currentTime taken when refreshData is called instead of in the callback.
CurrentTimeAtStart(started) == started

\* const currentTime = new Date().getTime(), first statement of the then
\* callback: the clock when the callback runs, whenever the cycle started.
CurrentTime(started) == clock

\* No query is being answered.
NoReply ==
  [op |-> "none", line |-> "", now |-> 0, value |-> Text(""), before |-> <<>>]

NoCycle ==
  [kind |-> "none", started |-> 0, now |-> 0, before |-> <<>>,
   results |-> <<>>, lineStatus |-> <<>>]

\* new DataCache(): records for the enumerated lines, the first refreshData
\* call, and the interval timer.
Init ==
  /\ sourceIsGtfsApi \in BOOLEAN
  /\ clock = 0
  /\ ticks = 0
  /\ startTime = clock
  /\ lineData = [id \in Range(SUBWAY_LINES) |-> initLineData(startTime)]
  /\ nextFire = clock + REFRESH_INTERVAL
  /\ inflight = {clock}
  /\ pc = "idle"
  /\ cur = NoCycle
  /\ reply = NoReply

\* Time passes, up to the moment the timer is due.
Tick ==
  /\ pc = "idle"
  /\ ticks < MaxTicks
  /\ \E t \in {clock + d : d \in ClockSteps} \cup {nextFire} :
       /\ t > clock
       /\ t <= nextFire
       /\ clock' = t
  /\ ticks' = ticks + 1
  /\ UNCHANGED <<sourceIsGtfsApi, startTime, lineData, nextFire, inflight, pc, cur, reply>>

\* A timer callback that starts no cycle while an earlier one is in flight.
TimerFireUnlessBusy ==
  /\ pc = "idle"
  /\ clock = nextFire
  /\ inflight = {}
  /\ inflight' = inflight \cup {clock}
  /\ nextFire' = nextFire + REFRESH_INTERVAL
  /\ UNCHANGED <<sourceIsGtfsApi, clock, ticks, startTime, lineData, pc, cur, reply>>

\* A timer that is re-armed from the moment the started fetch is issued,
\* one step late.
TimerFireDrifts ==
  /\ pc = "idle"
  /\ clock = nextFire
  /\ inflight' = inflight \cup {clock}
  /\ nextFire' = nextFire + REFRESH_INTERVAL + 500
  /\ UNCHANGED <<sourceIsGtfsApi, clock, ticks, startTime, lineData, pc, cur, reply>>

\* The setInterval callback: refreshData starts another fetch.
TimerFire ==
  /\ pc = "idle"
  /\ clock = nextFire
  /\ inflight' = inflight \cup {clock}
  /\ nextFire' = nextFire + REFRESH_INTERVAL
  /\ UNCHANGED <<sourceIsGtfsApi, clock, ticks, startTime, lineData, pc, cur, reply>>

\* Feed source: the requests of cycle c have all settled, or one of them
\* was rejected; Promise.all settles.
FeedFetchSettles(c) ==
  /\ pc = "idle"
  /\ sourceIsGtfsApi
  /\ c \in inflight
  /\ \E results \in FeedResults :
       cur' = [kind |-> IF AnyRejected(results) THEN "rejected" ELSE "resolved",
               started |-> c, now |-> 0, before |-> <<>>,
               results |-> results, lineStatus |-> <<>>]
  /\ inflight' = inflight \ {c}
  /\ pc' = "settled"
  /\ UNCHANGED <<sourceIsGtfsApi, clock, ticks, startTime, lineData, nextFire, reply>>

\* Scrape source: scrapePage of cycle c resolved with a lineStatus, or threw.
ScrapeSettles(c) ==
  /\ pc = "idle"
  /\ ~sourceIsGtfsApi
  /\ c \in inflight
  /\ \/ cur' = [kind |-> "rejected", started |-> c, now |-> 0, before |-> <<>>,
                results |-> <<>>, lineStatus |-> <<>>]
     \/ \E lineStatus \in LineStatuses :
          cur' = [kind |-> "resolved", started |-> c, now |-> 0, before |-> <<>>,
                  results |-> <<>>, lineStatus |-> lineStatus]
  /\ inflight' = inflight \ {c}
  /\ pc' = "settled"
  /\ UNCHANGED <<sourceIsGtfsApi, clock, ticks, startTime, lineData, nextFire, reply>>

\* A catch handler that treats the failure as a snapshot without alerts.
CatchCallbackAdvances ==
  /\ pc = "settled"
  /\ cur.kind = "rejected"
  /\ lineData' = IF sourceIsGtfsApi
                 THEN ForEachSubwayLine(lineData, {}, 1, CurrentTime(cur.started))
                 ELSE lineData
  /\ cur' = [cur EXCEPT !.now = CurrentTime(cur.started), !.before = lineData]
  /\ pc' = "returned"
  /\ UNCHANGED <<sourceIsGtfsApi, clock, ticks, startTime, nextFire, inflight, reply>>

\* .catch(() => {/* do nothing */}) for a rejected fetch.
CatchCallback ==
  /\ pc = "settled"
  /\ cur.kind = "rejected"
  /\ cur' = [cur EXCEPT !.now = CurrentTime(cur.started), !.before = lineData]
  /\ pc' = "returned"
  /\ UNCHANGED <<sourceIsGtfsApi, clock, ticks, startTime, lineData, nextFire, inflight, reply>>

\* The then callback of a resolved fetch: the mutation phase.
ThenCallback ==
  /\ pc = "settled"
  /\ cur.kind = "resolved"
  /\ lineData' = IF sourceIsGtfsApi
                 THEN FeedThen(lineData, cur.results, CurrentTime(cur.started))
                 ELSE ScrapeThen(lineData, cur.lineStatus, CurrentTime(cur.started))
  /\ cur' = [cur EXCEPT !.now = CurrentTime(cur.started), !.before = lineData]
  /\ pc' = "returned"
  /\ UNCHANGED <<sourceIsGtfsApi, clock, ticks, startTime, nextFire, inflight, reply>>

\* The callback has returned; the event loop takes the next event.
Return ==
  /\ pc = "returned"
  /\ pc' = "idle"
  /\ cur' = NoCycle
  /\ UNCHANGED <<sourceIsGtfsApi, clock, ticks, startTime, lineData, nextFire, inflight, reply>>

\* GET /uptime/:line: the handler calls dc.getUptime(line).
GetUptime(line) ==
  /\ pc = "idle"
  /\ reply' = [op |-> "getUptime", line |-> line, now |-> clock,
               value |-> getUptime(lineData, line, clock), before |-> lineData]
  /\ pc' = "answered"
  /\ UNCHANGED <<sourceIsGtfsApi, clock, ticks, startTime, lineData, nextFire, inflight, cur>>

\* GET /status/:line: the handler calls dc.getStatus(line).
GetStatus(line) ==
  /\ pc = "idle"
  /\ reply' = [op |-> "getStatus", line |-> line, now |-> clock,
               value |-> getStatus(lineData, line), before |-> lineData]
  /\ pc' = "answered"
  /\ UNCHANGED <<sourceIsGtfsApi, clock, ticks, startTime, lineData, nextFire, inflight, cur>>

\* res.send(...): the handler returns.
Respond ==
  /\ pc = "answered"
  /\ pc' = "idle"
  /\ reply' = NoReply
  /\ UNCHANGED <<sourceIsGtfsApi, clock, ticks, startTime, lineData, nextFire, inflight, cur>>

Next ==
  \/ Tick
  \/ TimerFire
  \/ \E c \in inflight : FeedFetchSettles(c)
  \/ \E c \in inflight : ScrapeSettles(c)
  \/ CatchCallback
  \/ ThenCallback
  \/ Return
  \/ \E line \in QueryLines : GetUptime(line)
  \/ \E line \in QueryLines : GetStatus(line)
  \/ Respond

Spec == Init /\ [][Next]_vars

TypeOK ==
  /\ clock \in Nat
  /\ pc \in {"idle", "settled", "returned", "answered"}
  /\ \A id \in DOMAIN lineData : lineData[id].status \in {"DELAYED", "NOT DELAYED"}

----------------------------------------------------------------------------
(* The two-cycle scenario: the same cache, with refreshData called at     *)
(* construction and at two given instants instead of every 59 seconds.    *)

\* The instants at which the scenario runs a cycle.
ScenarioCycleTimes == <<2000, 5000>>

ScenarioInit ==
  /\ sourceIsGtfsApi \in BOOLEAN
  /\ clock = 0
  /\ ticks = 0
  /\ startTime = clock
  /\ lineData = [id \in Range(SUBWAY_LINES) |-> initLineData(startTime)]
  /\ nextFire = ScenarioCycleTimes[1]
  /\ inflight = {clock}
  /\ pc = "idle"
  /\ cur = NoCycle
  /\ reply = NoReply

\* Time passes up to the next instant of the scenario.
ScenarioTick ==
  /\ pc = "idle"
  /\ clock < nextFire
  /\ nextFire \in Range(ScenarioCycleTimes)
  /\ clock' = nextFire
  /\ ticks' = ticks + 1
  /\ UNCHANGED <<sourceIsGtfsApi, startTime, lineData, nextFire, inflight, pc, cur, reply>>

\* refreshData is called at an instant of the scenario.
ScenarioFire ==
  /\ pc = "idle"
  /\ clock = nextFire
  /\ inflight' = inflight \cup {clock}
  /\ nextFire' = IF \E i \in DOMAIN ScenarioCycleTimes : ScenarioCycleTimes[i] > clock
                 THEN CHOOSE t \in Range(ScenarioCycleTimes) :
                        /\ t > clock
                        /\ \A u \in Range(ScenarioCycleTimes) : u > clock => t <= u
                 ELSE clock + REFRESH_INTERVAL
  /\ UNCHANGED <<sourceIsGtfsApi, clock, ticks, startTime, lineData, pc, cur, reply>>

ScenarioNext ==
  \/ ScenarioTick
  \/ ScenarioFire
  \/ \E c \in inflight : FeedFetchSettles(c)
  \/ \E c \in inflight : ScrapeSettles(c)
  \/ CatchCallback
  \/ ThenCallback
  \/ Return
  \/ \E line \in QueryLines : GetUptime(line)
  \/ \E line \in QueryLines : GetStatus(line)
  \/ Respond

ScenarioSpec == ScenarioInit /\ [][ScenarioNext]_vars

----------------------------------------------------------------------------
(* Vocabulary of the properties *)

\* A callback has just run: cur holds what the fetch settled to, cur.before
\* the records as the callback found them, lineData the records it left.
Returned == pc = "returned"

\* The lines that the delay-classified entities of the decoded messages name.
DelayedLines(results) ==
  {id \in RouteIds :
     \E i \in DOMAIN results :
       /\ results[i].kind = "message"
       /\ \E j \in DOMAIN results[i].entity :
            LET e == results[i].entity[j]
            IN /\ e.hasAlert
               /\ IsDelaysHeader(e.header)
               /\ \E k \in DOMAIN e.informed : e.informed[k] = id}

AllRejected(results) == \A i \in DOMAIN results : results[i].kind = "rejected"
AllDecoded(results)  == \A i \in DOMAIN results : results[i].kind = "message"

\* The fetch of the cycle failed entirely.
FetchFailedEntirely ==
  /\ Returned
  /\ cur.kind = "rejected"
  /\ sourceIsGtfsApi => AllRejected(cur.results)

\* A feed cycle in which every request resolved with a decoded message.
FeedCycleSucceeded ==
  /\ Returned
  /\ sourceIsGtfsApi
  /\ cur.kind = "resolved"
  /\ AllDecoded(cur.results)

\* A scrape cycle in which scrapePage resolved.
ScrapeCycleSucceeded ==
  /\ Returned
  /\ ~sourceIsGtfsApi
  /\ cur.kind = "resolved"

\* The lines for which the cycle carries an observation.
Observed ==
  IF sourceIsGtfsApi THEN DelayedLines(cur.results) ELSE DOMAIN cur.lineStatus

----------------------------------------------------------------------------
(* C1 *)

\* C1: in every reachable state, under either source, every record in the
\* store (enumerated or lazily created) has 0 <= undelayedTime <= activeTime.
C1_CountersOrdered ==
  \A id \in DOMAIN lineData :
    /\ 0 <= lineData[id].undelayedTime
    /\ lineData[id].undelayedTime <= lineData[id].activeTime

\* A cycle has left an enumerated record with part of its time undelayed
\* and part not, next to a lazily created record.
C1_Witness ==
  /\ Returned
  /\ cur.kind = "resolved"
  /\ \E id \in Range(SUBWAY_LINES) :
       /\ 0 < lineData[id].undelayedTime
       /\ lineData[id].undelayedTime < lineData[id].activeTime
  /\ \E id \in DOMAIN lineData : id \notin Range(SUBWAY_LINES)

----------------------------------------------------------------------------
(* C2 *)

\* C2: whatever the order in which overlapping cycles settle, a mutation
\* phase never computes a negative delta: no record's lastUpdated is ahead
\* of the callback's currentTime, and no record's lastUpdated or activeTime
\* decreases.
C2_DeltasNonNegative ==
  (Returned /\ cur.kind = "resolved") =>
    \A id \in DOMAIN cur.before :
      /\ cur.before[id].lastUpdated <= cur.now
      /\ id \in DOMAIN lineData
      /\ lineData[id].lastUpdated >= cur.before[id].lastUpdated
      /\ lineData[id].activeTime >= cur.before[id].activeTime

\* A cycle settles after a cycle that started later has already updated a
\* record, and advances that record.
C2_Witness ==
  /\ Returned
  /\ cur.kind = "resolved"
  /\ \E id \in DOMAIN cur.before :
       /\ cur.before[id].lastUpdated > cur.started
       /\ lineData[id].lastUpdated > cur.before[id].lastUpdated

----------------------------------------------------------------------------
(* C3 *)

\* C3: a cycle whose fetch failed entirely (every feed request rejected, or
\* the scrape threw) changes no record and creates none.
C3_FailedCycleNoOp ==
  FetchFailedEntirely => lineData = cur.before

\* A fetch failed entirely at a time when a record was behind the clock.
C3_Witness ==
  /\ FetchFailedEntirely
  /\ \E id \in DOMAIN cur.before : cur.before[id].lastUpdated < cur.now

----------------------------------------------------------------------------
(* C4 *)

\* The results of a cycle with every failed request replaced by a decoded
\* message that has no entities.
AsIfNoAlerts(results, failedKind) ==
  [i \in DOMAIN results |->
     IF results[i].kind = failedKind
     THEN [kind |-> "message", entity |-> <<>>]
     ELSE results[i]]

\* C4: feed source: when one request is rejected and another resolves with
\* a decoded message in the same cycle, the records after the cycle are the
\* ones the cycle would have produced had the rejected request returned a
\* message without alerts.
C4_RejectedFeedIsSoft ==
  ( /\ Returned
    /\ sourceIsGtfsApi
    /\ \E i \in DOMAIN cur.results : cur.results[i].kind = "rejected"
    /\ \E i \in DOMAIN cur.results : cur.results[i].kind = "message"
    /\ \A i \in DOMAIN cur.results : cur.results[i].kind # "undecodable" )
  => lineData = FeedThen(cur.before, AsIfNoAlerts(cur.results, "rejected"), cur.now)

----------------------------------------------------------------------------
(* C5 *)

\* C5: feed source: a cycle in which a request resolved with an undecodable
\* payload leaves the records the cycle would have produced had that
\* request returned a decoded message without entities.
C5_UndecodableIsEmpty ==
  ( /\ Returned
    /\ sourceIsGtfsApi
    /\ cur.kind = "resolved"
    /\ \E i \in DOMAIN cur.results : cur.results[i].kind = "undecodable" )
  => lineData = FeedThen(cur.before, AsIfNoAlerts(cur.results, "undecodable"), cur.now)

----------------------------------------------------------------------------
(* C6 *)

\* C6: under either source, after a successful cycle run at currentTime
\* that carries no observation for a tracked line, the line's lastUpdated is
\* currentTime and its activeTime has grown by currentTime minus the
\* previous lastUpdated.
C6_UnobservedLineAdvances ==
  (FeedCycleSucceeded \/ ScrapeCycleSucceeded) =>
    \A id \in Range(SUBWAY_LINES) \ Observed :
      /\ lineData[id].lastUpdated = cur.now
      /\ lineData[id].activeTime =
           cur.before[id].activeTime + (cur.now - cur.before[id].lastUpdated)

----------------------------------------------------------------------------
(* C7 *)

\* The cycle's snapshot is empty or carries no data: the fetch failed, or
\* no line is observed.
EmptySnapshot ==
  /\ Returned
  /\ cur.kind = "rejected" \/ Observed = {}

----------------------------------------------------------------------------
(* C8 *)

\* C8: feed source: for every line a cycle updates (the lines seen delayed
\* and the enumerated lines), the elapsed delta is added to undelayedTime
\* if and only if the line's status before the update was NOT DELAYED.
C8_CreditByPriorStatus ==
  FeedCycleSucceeded =>
    \A id \in DOMAIN cur.before \cap (Observed \cup Range(SUBWAY_LINES)) :
      lineData[id].undelayedTime =
        cur.before[id].undelayedTime +
          (IF cur.before[id].status = "NOT DELAYED"
           THEN cur.now - cur.before[id].lastUpdated ELSE 0)

----------------------------------------------------------------------------
(* C9 *)

\* C9: feed source: an enumerated line that is DELAYED when a successful
\* cycle runs and is absent from that cycle's snapshot is NOT DELAYED after
\* it, its activeTime has grown by the elapsed delta and its undelayedTime
\* is unchanged.
C9_AbsenceRecovers ==
  FeedCycleSucceeded =>
    \A id \in Range(SUBWAY_LINES) \ Observed :
      cur.before[id].status = "DELAYED" =>
        /\ lineData[id].status = "NOT DELAYED"
        /\ lineData[id].activeTime =
             cur.before[id].activeTime + (cur.now - cur.before[id].lastUpdated)
        /\ lineData[id].undelayedTime = cur.before[id].undelayedTime

\* A successful feed cycle finds an enumerated line DELAYED since an earlier
\* time and does not see it delayed.
C9_Witness ==
  /\ FeedCycleSucceeded
  /\ \E id \in Range(SUBWAY_LINES) \ Observed :
       /\ cur.before[id].status = "DELAYED"
       /\ cur.before[id].lastUpdated < cur.now
       /\ lineData[id].status = "NOT DELAYED"

----------------------------------------------------------------------------
(* C10 *)

\* C10: feed source: after every successful cycle, every record in the
\* store, enumerated or lazily created, is DELAYED if and only if the cycle
\* saw its line delayed.
C10_DelayedIffSeen ==
  FeedCycleSucceeded =>
    \A id \in DOMAIN lineData :
      lineData[id].status = "DELAYED" <=> id \in Observed

----------------------------------------------------------------------------
(* C11 *)

\* The record a per-line update starts from: the stored one, or the fresh
\* one created at currentTime when the line has none.
RecordBefore(id) ==
  IF id \in DOMAIN cur.before THEN cur.before[id] ELSE initLineData(cur.now)

\* C11: scrape source: for every line a cycle's snapshot mentions, the
\* elapsed delta (currentTime minus the record's lastUpdated) is added to
\* activeTime, and to undelayedTime exactly when the judgment is
\* 'undelayed', whatever the prior status.
C11_CreditByJudgment ==
  ScrapeCycleSucceeded =>
    \A id \in DOMAIN cur.lineStatus :
      LET b == RecordBefore(id)
          delta == cur.now - b.lastUpdated
      IN /\ lineData[id].activeTime = b.activeTime + delta
         /\ lineData[id].undelayedTime =
              b.undelayedTime +
                (IF cur.lineStatus[id] = "undelayed" THEN delta ELSE 0)

\* A scrape cycle judges 'undelayed' a line that was DELAYED since an
\* earlier time.
C11_Witness ==
  /\ ScrapeCycleSucceeded
  /\ \E id \in DOMAIN cur.lineStatus \cap DOMAIN cur.before :
       /\ cur.before[id].lastUpdated < cur.now
       /\ cur.before[id].status = "DELAYED"
       /\ cur.lineStatus[id] = "undelayed"
       /\ lineData[id].undelayedTime > cur.before[id].undelayedTime

----------------------------------------------------------------------------
(* C12 *)

\* C12: scrape source: a record goes from NOT DELAYED to DELAYED only in a
\* cycle whose snapshot judges its line 'delayed', from DELAYED to
\* NOT DELAYED only in a cycle whose snapshot judges it 'undelayed', and a
\* line the cycle does not mention keeps its status.
C12_StatusFollowsJudgment ==
  (Returned /\ ~sourceIsGtfsApi) =>
    \A id \in DOMAIN cur.before :
      LET b == cur.before[id]
          a == lineData[id]
          mentioned == cur.kind = "resolved" /\ id \in DOMAIN cur.lineStatus
      IN /\ (b.status = "NOT DELAYED" /\ a.status = "DELAYED") =>
              (mentioned /\ cur.lineStatus[id] = "delayed")
         /\ (b.status = "DELAYED" /\ a.status = "NOT DELAYED") =>
              (mentioned /\ cur.lineStatus[id] = "undelayed")
         /\ ~mentioned => a.status = b.status

\* A scrape cycle changes the status of a line it mentions and leaves a
\* DELAYED line it does not mention.
C12_Witness ==
  /\ ScrapeCycleSucceeded
  /\ \E id \in DOMAIN cur.before \cap DOMAIN cur.lineStatus :
       lineData[id].status # cur.before[id].status
  /\ \E id \in DOMAIN cur.before \ DOMAIN cur.lineStatus :
       cur.before[id].status = "DELAYED" /\ lineData[id].status = "DELAYED"

----------------------------------------------------------------------------
(* C13 *)

\* The cycles that have been started, and how many of them have settled.
ScenarioStarted ==
  {startTime} \cup {t \in Range(ScenarioCycleTimes) : t < nextFire}
ScenarioSettled == Cardinality(ScenarioStarted \ inflight)

\* The cycle that has just run observed the line as delayed.
SeenDelayed(id) ==
  IF sourceIsGtfsApi
  THEN AllDecoded(cur.results) /\ id \in DelayedLines(cur.results)
  ELSE id \in DOMAIN cur.lineStatus /\ cur.lineStatus[id] = "delayed"

\* Exactly two cycles have run: one at 2000 that found line G as it was
\* created at 0 and left it DELAYED, and one at 5000 that has just observed
\* G delayed again.
C13_Scenario ==
  /\ Returned
  /\ cur.kind = "resolved"
  /\ cur.now = 5000
  /\ ScenarioSettled = 2
  /\ cur.before["G"].lastUpdated = 2000
  /\ cur.before["G"].status = "DELAYED"
  /\ SeenDelayed("G")

\* C13: line G is created at 0, not delayed until 2000 and delayed from
\* 2000 to 5000, with one cycle at 2000 and one at 5000: afterwards
\* undelayedTime is 2000, activeTime is 5000 and getUptime("G") at 5000 is
\* 2000/5000 = 0.400.
C13_TimeWeightedUptime ==
  C13_Scenario =>
    /\ lineData["G"].undelayedTime = 2000
    /\ lineData["G"].activeTime = 5000
    /\ getUptime(lineData, "G", clock) = ToFixed3(2000, 5000)

----------------------------------------------------------------------------
(* C14 *)

\* A query has just been answered.
Answered == pc = "answered"

\* The numerator and denominator of the uptime ratio of a record at a time.
LiveDelta(r, now) == now - r.lastUpdated
Denominator(r, now) == r.activeTime + LiveDelta(r, now)
Numerator(r, now) ==
  r.undelayedTime + (IF r.status = "NOT DELAYED" THEN LiveDelta(r, now) ELSE 0)

\* C14: for a line with a record, getUptime at time now answers the
\* no-baseline text exactly when activeTime + liveDelta < 1000 and otherwise
\* the ratio of undelayedTime (+ liveDelta only if NOT DELAYED) to
\* activeTime + liveDelta; and for every record, at every time, that
\* numerator lies between 0 and the denominator.
C14_UptimeRatio ==
  /\ \A id \in DOMAIN lineData :
       /\ 0 <= Numerator(lineData[id], clock)
       /\ Numerator(lineData[id], clock) <= Denominator(lineData[id], clock)
  /\ (Answered /\ reply.op = "getUptime" /\ reply.line \in DOMAIN lineData) =>
       LET r == lineData[reply.line]
       IN /\ reply.value = Text(NoBaselineText) <=> Denominator(r, reply.now) < 1000
          /\ Denominator(r, reply.now) >= 1000 =>
               /\ reply.value = ToFixed3(Numerator(r, reply.now), Denominator(r, reply.now))
               /\ reply.value.thousandths \in 0..1000

\* getUptime answers with a ratio for a DELAYED line whose record is behind
\* the clock.
C14_Witness ==
  /\ Answered
  /\ reply.op = "getUptime"
  /\ reply.line \in DOMAIN lineData
  /\ lineData[reply.line].status = "DELAYED"
  /\ LiveDelta(lineData[reply.line], reply.now) > 0
  /\ reply.value.kind = "toFixed(3)"

----------------------------------------------------------------------------
(* C15 *)

\* C15: for a line id that is not in the enumeration, getStatus and
\* getUptime answer the not-found text, and the query leaves the store as
\* it was, without a record for that id.
C15_UnknownLineNotFound ==
  (Answered /\ reply.line \notin Range(SUBWAY_LINES)) =>
    /\ reply.value = Text(NotFoundText)
    /\ lineData = reply.before
    /\ reply.line \notin DOMAIN lineData

----------------------------------------------------------------------------
(* C16 *)

\* The records a resolved cycle's callback produces from the ones it found.
Applied ==
  IF sourceIsGtfsApi THEN FeedThen(cur.before, cur.results, cur.now)
  ELSE ScrapeThen(cur.before, cur.lineStatus, cur.now)

\* C16: the timer starts a cycle whenever it is due, whatever cycles are
\* still in flight and however the last one ended; it is never overdue and
\* never more than a period ahead; and a cycle started by the timer whose
\* fetch resolves is applied to the store, whether or not earlier cycles
\* failed or are still in flight.
C16_SchedulerKeepsFiring ==
  /\ (pc = "idle" /\ clock = nextFire) => ENABLED TimerFire
  /\ clock <= nextFire
  /\ nextFire <= clock + REFRESH_INTERVAL
  /\ (Returned /\ cur.kind = "resolved" /\ cur.started > startTime) =>
       lineData = Applied

\* A cycle started by the timer has been applied and has changed the store
\* while the cycle started at construction is still in flight.
C16_Witness ==
  /\ Returned
  /\ cur.kind = "resolved"
  /\ cur.started > startTime
  /\ startTime \in inflight
  /\ lineData # cur.before

----------------------------------------------------------------------------
(* C17 *)

\* C17 as stated: whenever a query is answered, the cycle started at
\* construction has already settled, so the store holds the first snapshot.
C17_SeededBeforeFirstQuery ==
  Answered => startTime \notin inflight

\* C17 amended: the constructor seeds a record for every enumerated line,
\* so a query about an enumerated line is always answered from a record;
\* the cycles in flight are the one started at construction and the ones
\* started at whole periods after it, and the timer is always armed for the
\* next whole period.
C17_FiredAtConstructionAndEachPeriod ==
  /\ Range(SUBWAY_LINES) \subseteq DOMAIN lineData
  /\ (Answered /\ reply.line \in Range(SUBWAY_LINES)) =>
       reply.value # Text(NotFoundText)
  /\ \A c \in inflight :
       /\ c >= startTime
       /\ c < nextFire
       /\ (c - startTime) % REFRESH_INTERVAL = 0
  /\ nextFire > startTime
  /\ (nextFire - startTime) % REFRESH_INTERVAL = 0

\* A query about an enumerated line is answered from its initial record
\* while the cycle started at construction is still in flight.
C17_Witness ==
  /\ Answered
  /\ reply.op = "getStatus"
  /\ reply.line \in Range(SUBWAY_LINES)
  /\ startTime \in inflight
  /\ lineData[reply.line] = initLineData(startTime)
  /\ reply.value = Text("NOT DELAYED")

----------------------------------------------------------------------------
(* C18 *)

\* The characters that make up a word, among those the headers use.
WordChars == {"d", "e", "l", "a", "y", "s"}

\* The header begins with the token "delays", compared without regard to
\* case: those six letters, followed by the end of the string or by a
\* character that is not part of a word.
BeginsWithDelays(header) ==
  /\ Len(header) >= 6
  /\ \A i \in 1..6 : LowerCase(header[i]) = <<"d", "e", "l", "a", "y", "s">>[i]
  /\ Len(header) > 6 => LowerCase(header[7]) \notin WordChars

\* The lines named by the alerts whose header begins with "delays".
LinesUnderDelaysHeader(results) ==
  {id \in RouteIds :
     \E i \in DOMAIN results :
       /\ results[i].kind = "message"
       /\ \E j \in DOMAIN results[i].entity :
            LET e == results[i].entity[j]
            IN /\ e.hasAlert
               /\ BeginsWithDelays(e.header)
               /\ \E k \in DOMAIN e.informed : e.informed[k] = id}

\* C18: feed source: an alert marks the lines it names as delayed if and
\* only if its header begins with the token "delays", case-insensitively:
\* after a successful cycle every line named under such a header is DELAYED
\* as of the cycle's time, and the cycle treats no other line as seen
\* delayed.
C18_DelaysHeaderClassifies ==
  FeedCycleSucceeded =>
    /\ \A id \in LinesUnderDelaysHeader(cur.results) :
         /\ id \in DOMAIN lineData
         /\ lineData[id].status = "DELAYED"
         /\ lineData[id].lastUpdated = cur.now
    /\ DelayedLines(cur.results) \subseteq LinesUnderDelaysHeader(cur.results)

----------------------------------------------------------------------------
(* C19 *)

\* C19: under either source, a line without a record that a successful
\* cycle's snapshot mentions gets a record created at the cycle's time, and
\* after the cycle its activeTime and undelayedTime are 0 and its
\* lastUpdated is the cycle's time; no cycle creates a record otherwise,
\* and no record is ever removed.
C19_LazyRecord ==
  Returned =>
    /\ DOMAIN cur.before \subseteq DOMAIN lineData
    /\ \A id \in DOMAIN lineData \ DOMAIN cur.before :
         /\ cur.kind = "resolved"
         /\ id \in Observed
         /\ lineData[id].activeTime = 0
         /\ lineData[id].undelayedTime = 0
         /\ lineData[id].lastUpdated = cur.now
    /\ (FeedCycleSucceeded \/ ScrapeCycleSucceeded) =>
         Observed \subseteq DOMAIN lineData

\* A cycle run after the start has created a record, next to the records
\* that were there before.
C19_Witness ==
  /\ Returned
  /\ cur.now > startTime
  /\ cur.before # <<>>
  /\ \E id \in DOMAIN lineData : id \notin DOMAIN cur.before

----------------------------------------------------------------------------
(* C20 *)

\* C20: every record's activeTime is its lastUpdated minus the time it was
\* created: an enumerated record's activeTime is lastUpdated - startTime,
\* and every callback advances a record's activeTime and lastUpdated by the
\* same amount, starting from 0 at the cycle's time for a record it
\* creates. Hence getUptime answers the no-baseline text for an enumerated
\* line exactly during the first 1000 ms after construction.
C20_ActiveIsElapsed ==
  /\ \A id \in Range(SUBWAY_LINES) :
       lineData[id].activeTime = lineData[id].lastUpdated - startTime
  /\ Returned =>
       \A id \in DOMAIN lineData :
         lineData[id].activeTime - RecordBefore(id).activeTime =
           lineData[id].lastUpdated - RecordBefore(id).lastUpdated
  /\ (Answered /\ reply.op = "getUptime" /\ reply.line \in Range(SUBWAY_LINES)) =>
       (reply.value = Text(NoBaselineText) <=> reply.now - startTime < 1000)

\* getUptime answers the no-baseline text for an enumerated line that a
\* cycle has already advanced, and a ratio once 1000 ms have passed.
C20_Witness ==
  /\ Answered
  /\ reply.op = "getUptime"
  /\ reply.line \in Range(SUBWAY_LINES)
  /\ reply.value = Text(NoBaselineText)
  /\ lineData[reply.line].lastUpdated > startTime

----------------------------------------------------------------------------
(* C21 *)

\* C21: scrape source: a cycle leaves the record of every line it does not
\* mention exactly as it was (lastUpdated does not advance), and for a line
\* it mentions the delta is the whole time since the record's lastUpdated,
\* which is added to activeTime and, exactly when the new judgment is
\* 'undelayed', to undelayedTime, whatever the status was during the gap.
C21_GapChargedByNewJudgment ==
  (Returned /\ ~sourceIsGtfsApi) =>
    \A id \in DOMAIN cur.before :
      LET b   == cur.before[id]
          a   == lineData[id]
          gap == cur.now - b.lastUpdated
      IN IF cur.kind = "resolved" /\ id \in DOMAIN cur.lineStatus
         THEN /\ a.lastUpdated = cur.now
              /\ a.activeTime = b.activeTime + gap
              /\ a.undelayedTime =
                   b.undelayedTime +
                     (IF cur.lineStatus[id] = "undelayed" THEN gap ELSE 0)
         ELSE a = b

\* A line that was DELAYED is judged 'undelayed' after a successful cycle
\* in between mentioned another line but not this one (the other line's
\* record was last updated strictly inside the gap), and the whole gap has
\* been added to the line's undelayedTime.
C21_Witness ==
  /\ ScrapeCycleSucceeded
  /\ \E id \in DOMAIN cur.lineStatus \cap DOMAIN cur.before :
       /\ cur.before[id].status = "DELAYED"
       /\ cur.lineStatus[id] = "undelayed"
       /\ \E other \in DOMAIN cur.before \ DOMAIN cur.lineStatus :
            /\ cur.before[id].lastUpdated < cur.before[other].lastUpdated
            /\ cur.before[other].lastUpdated < cur.now
       /\ lineData[id].undelayedTime =
            cur.before[id].undelayedTime + (cur.now - cur.before[id].lastUpdated)
       /\ lineData[id].undelayedTime > cur.before[id].undelayedTime

====
